---- MODULE Spec2Model ----
(***************************************************************************)
(* Model of src/Pages/MapView.tsx (gpx-viewer): the MapView component's    *)
(* overlay state (polylinesRef, markersRef, the overlays attached to the   *)
(* map), its file-load handler handleFile with its one suspension point    *)
(* (await file.text()), and the pure pipeline it runs: elevation colour    *)
(* mapping, elevation range, segment rendering, direction arrows, waypoint *)
(* markers and viewport fitting.                                           *)
(*                                                                         *)
(* Numbers.  Elevations are integers; the documents of the model carry     *)
(* even elevations, so the average of two of them is an integer and        *)
(* (a + b) / 2 is exact.  Latitudes are counted in arcs of 1 km along a    *)
(* meridian (1 unit = 180 / (pi * 6371) degrees); track points share one   *)
(* longitude, where the haversine distance of the source is exactly        *)
(* 6371 * |dLat| = the difference of the two latitudes in units.           *)
(***************************************************************************)
EXTENDS Integers, Sequences, FiniteSets

\* ---------------------------------------------------------------- bounds
\* file-load events (handleFile invocations) in one behaviour
MaxLoads == 2
\* waypoint coordinates of the waypoint-only documents range over 0..MaxCoord
MaxCoord == 1
\* renderDirectionArrows, stepped: tracks per call, points per track, latitudes
MaxArrowTracks == 2
MaxArrowPoints == 4
MaxLat == 7
\* getColorForElevation: range ends in 0..MaxElev, elevation in -1..MaxElev+1
MaxElev == 4

\* ------------------------------------------------------------- constants
\* "if (accumulatedDistance - lastArrowDistance >= 3)"
ArrowThreshold == 3
lowColor == <<128, 140, 255>>
highColor == <<255, 125, 113>>

\* ------------------------------------------------------------- utilities
Range(s) == {s[i] : i \in 1..Len(s)}

RECURSIVE Flatten(_)
\* Array.prototype.flatMap(x => x) / forEach in order: concatenation
Flatten(ss) == IF ss = <<>> THEN <<>> ELSE Head(ss) \o Flatten(Tail(ss))

\* Math.round of the rational n / d (d > 0): floor(n / d + 1/2)
MathRound(n, d) == (2 * n + d) \div (2 * d)

\* an optional number (ele?: number) is <<>> or <<v>>;  "x ?? 0"
OrZero(opt) == IF opt = <<>> THEN 0 ELSE opt[1]

\* ------------------------------------------------- Elevation colour mapper
\* One channel: Math.round(low + (high - low) * n / d), the ratio being n / d
Channel(low, high, n, d) == MathRound(low * d + (high - low) * n, d)

\* The ratio (elevation - min) / (max - min || 1) as a fraction n / d with
\* d > 0, clamped into [0, 1] by Math.max(0, Math.min(1, ratio)).
NormalizedRatio(elevation, minElevation, maxElevation) ==
  LET span == maxElevation - minElevation
      den  == IF span = 0 THEN 1 ELSE span
      num  == elevation - minElevation
      d    == IF den < 0 THEN -den ELSE den
      n    == IF den < 0 THEN -num ELSE num
  IN  [n |-> IF n < 0 THEN 0 ELSE IF n > d THEN d ELSE n, d |-> d]

\* getColorForElevation without the clamp (normalizedRatio = ratio)
getColorForElevationUnclamped(elevation, minElevation, maxElevation) ==
  LET span == maxElevation - minElevation
      d == IF span = 0 THEN 1 ELSE span
      n == elevation - minElevation
  IN  << Channel(lowColor[1], highColor[1], n, d),
         Channel(lowColor[2], highColor[2], n, d),
         Channel(lowColor[3], highColor[3], n, d) >>

\* The string `rgb(r, g, b)` is modelled by the triple <<r, g, b>>.
getColorForElevation(elevation, minElevation, maxElevation) ==
  LET q == NormalizedRatio(elevation, minElevation, maxElevation)
  IN  << Channel(lowColor[1], highColor[1], q.n, q.d),
         Channel(lowColor[2], highColor[2], q.n, q.d),
         Channel(lowColor[3], highColor[3], q.n, q.d) >>

\* ---------------------------------------------------------------- Geo math
\* Haversine distance in km of two points of one meridian (see the header)
calculateDistance(point1, point2) ==
  IF point2.lat >= point1.lat THEN point2.lat - point1.lat
                              ELSE point1.lat - point2.lat

\* Initial bearing of two points of one meridian: y = 0 and x = sin(dLat), so
\* atan2(y, x) is 0 (north, or no movement: atan2(0, 0) = 0) or 180 (south).
calculateBearing(point1, point2) ==
  IF point2.lat >= point1.lat THEN 0 ELSE 180

\* ---------------------------------------------------------- Track analyzer
Elevations(allPoints) == {OrZero(allPoints[i].ele) : i \in 1..Len(allPoints)}

\* Math.min(...[]) is Infinity and Math.max(...[]) is -Infinity
calculateElevationRange(tracks) ==
  LET allPoints == Flatten(tracks)
      es == Elevations(allPoints)
  IN  [min |-> IF es = {} THEN "Infinity"
               ELSE CHOOSE e \in es : \A f \in es : e <= f,
       max |-> IF es = {} THEN "-Infinity"
               ELSE CHOOSE e \in es : \A f \in es : e >= f,
       allPoints |-> allPoints]

\* -------------------------------------------------------- Segment renderer
LatLng(p) == [lat |-> p.lat, lng |-> p.lon]

\* new google.maps.Polyline({path, strokeColor, ..., map}) for points[i], points[i+1]
Polyline(currentPoint, nextPoint, minElevation, maxElevation) ==
  [kind |-> "polyline",
   path |-> <<LatLng(currentPoint), LatLng(nextPoint)>>,
   strokeColor |-> getColorForElevation(
       (OrZero(currentPoint.ele) + OrZero(nextPoint.ele)) \div 2,
       minElevation, maxElevation)]

\* the inner for loop over one track (i from 0 to points.length - 2)
TrackSegments(points, minElevation, maxElevation) ==
  [i \in 1..(Len(points) - 1) |->
     Polyline(points[i], points[i + 1], minElevation, maxElevation)]

RECURSIVE renderTrackSegments(_, _, _)
\* the polylines pushed to polylinesRef, in the order they are pushed
renderTrackSegments(tracks, minElevation, maxElevation) ==
  IF tracks = <<>> THEN <<>>
  ELSE TrackSegments(Head(tracks), minElevation, maxElevation)
       \o renderTrackSegments(Tail(tracks), minElevation, maxElevation)

\* ------------------------------------------------- Direction-marker placer
\* new google.maps.Marker({position, map, icon: {..., rotation}, title}); the
\* title `Distance: ${accumulatedDistance.toFixed(1)}km` is modelled by the
\* distance it prints.
ArrowMarker(currentPoint, nextPoint, accumulatedDistance) ==
  [kind |-> "arrow",
   position |-> LatLng(currentPoint),
   rotation |-> calculateBearing(currentPoint, nextPoint),
   title |-> accumulatedDistance]

\* The callback's locals at its entry: accumulatedDistance = 0,
\* lastArrowDistance = 0; markers are the markers the callback has pushed.
ArrowTrackStart ==
  [accumulatedDistance |-> 0, lastArrowDistance |-> 0, markers |-> <<>>]

\* the loop body with the baseline never moved (lastArrowDistance stays 0)
ArrowIterationNoBaseline(st, currentPoint, nextPoint) ==
  LET acc == st.accumulatedDistance + calculateDistance(currentPoint, nextPoint)
  IN  IF acc - st.lastArrowDistance >= ArrowThreshold
      THEN [st EXCEPT !.accumulatedDistance = acc,
                      !.markers = Append(@, ArrowMarker(currentPoint, nextPoint, acc))]
      ELSE [st EXCEPT !.accumulatedDistance = acc]

\* the loop body with the baseline moved by one threshold, to the multiple of
\* the threshold instead of the distance at the emission point
ArrowIterationMultiple(st, currentPoint, nextPoint) ==
  LET acc == st.accumulatedDistance + calculateDistance(currentPoint, nextPoint)
  IN  IF acc - st.lastArrowDistance >= ArrowThreshold
      THEN [accumulatedDistance |-> acc,
            lastArrowDistance |-> st.lastArrowDistance + ArrowThreshold,
            markers |-> Append(st.markers, ArrowMarker(currentPoint, nextPoint, acc))]
      ELSE [st EXCEPT !.accumulatedDistance = acc]

\* One iteration of the for loop of renderDirectionArrows
ArrowIteration(st, currentPoint, nextPoint) ==
  LET acc == st.accumulatedDistance + calculateDistance(currentPoint, nextPoint)
  IN  IF acc - st.lastArrowDistance >= ArrowThreshold
      THEN [accumulatedDistance |-> acc,
            lastArrowDistance |-> acc,
            markers |-> Append(st.markers, ArrowMarker(currentPoint, nextPoint, acc))]
      ELSE [st EXCEPT !.accumulatedDistance = acc]

RECURSIVE ArrowLoop(_, _, _)
\* the for loop from iteration i on (i counts from 1; the source's from 0)
ArrowLoop(points, i, st) ==
  IF i > Len(points) - 1 THEN st
  ELSE ArrowLoop(points, i + 1, ArrowIteration(st, points[i], points[i + 1]))

RECURSIVE renderDirectionArrows(_)
\* the arrow markers pushed to markersRef, in the order they are pushed
renderDirectionArrows(tracks) ==
  IF tracks = <<>> THEN <<>>
  ELSE ArrowLoop(Head(tracks), 1, ArrowTrackStart).markers
       \o renderDirectionArrows(Tail(tracks))

\* ------------------------------------------------------ Waypoint annotator
\* new google.maps.Marker({position, map, title: waypoint.name}); the info
\* window and its click listener exist when a name, desc or ele is present
\* (the waypoints of the model carry a name only).
WaypointMarker(waypoint) ==
  [kind |-> "waypoint",
   position |-> LatLng(waypoint),
   title |-> waypoint.name,
   infoWindow |-> waypoint.name # <<>>]

renderWaypoints(waypoints) ==
  [i \in 1..Len(waypoints) |-> WaypointMarker(waypoints[i])]

\* --------------------------------------------------------- Viewport fitter
\* new google.maps.LatLngBounds(): the empty region
EmptyBounds == [empty |-> TRUE, south |-> 0, north |-> 0, west |-> 0, east |-> 0]

\* bounds.extend(p) (longitudes of the model are far from the antimeridian)
Extend(b, p) ==
  IF b.empty
  THEN [empty |-> FALSE, south |-> p.lat, north |-> p.lat,
        west |-> p.lon, east |-> p.lon]
  ELSE [empty |-> FALSE,
        south |-> IF p.lat < b.south THEN p.lat ELSE b.south,
        north |-> IF p.lat > b.north THEN p.lat ELSE b.north,
        west  |-> IF p.lon < b.west THEN p.lon ELSE b.west,
        east  |-> IF p.lon > b.east THEN p.lon ELSE b.east]

RECURSIVE ExtendAll(_, _)
ExtendAll(b, ps) ==
  IF ps = <<>> THEN b ELSE ExtendAll(Extend(b, Head(ps)), Tail(ps))

\* fitMapBounds extending by the track points only
fitMapBoundsTracksOnly(allPoints, waypoints) ==
  <<ExtendAll(EmptyBounds, allPoints)>>

\* The calls of map.fitBounds the function makes: one, unconditionally, with
\* the region extended by every track point and then every waypoint.
fitMapBounds(allPoints, waypoints) ==
  <<ExtendAll(ExtendAll(EmptyBounds, allPoints), waypoints)>>

\* ---------------------------------------------------------- Overlay state
\* An overlay object is what its constructor was given, plus its identity:
\* the file-load event that constructed it and its rank among that event's
\* constructions.
Tagged(l, objs, offset) ==
  [i \in 1..Len(objs) |-> [load |-> l, rank |-> offset + i, obj |-> objs[i]]]

\* clearMapOverlays that detaches the polylines only
clearMapOverlaysPolylinesOnly(polylines, markers, attached) ==
  [polylinesRef |-> <<>>, markersRef |-> <<>>,
   onMap |-> attached \ Range(polylines)]

\* setMap(null) on every tracked polyline and marker, then both refs emptied
clearMapOverlays(polylines, markers, attached) ==
  [polylinesRef |-> <<>>, markersRef |-> <<>>,
   onMap |-> attached \ (Range(polylines) \cup Range(markers))]

\* ------------------------------------------------------------------ inputs
Point(lat, lon, ele) == [lat |-> lat, lon |-> lon, ele |-> ele]
Waypoint(lat, lon, name) == [lat |-> lat, lon |-> lon, name |-> name]

\* What a selected file holds: a document the parser accepts, text the parser
\* throws on, or nothing readable (file.text() rejects).
Doc(tracks, waypoints) == [kind |-> "doc", tracks |-> tracks, waypoints |-> waypoints]
Malformed == [kind |-> "malformed", tracks |-> <<>>, waypoints |-> <<>>]
Unreadable == [kind |-> "unreadable", tracks |-> <<>>, waypoints |-> <<>>]
NoFile == [kind |-> "none", tracks |-> <<>>, waypoints |-> <<>>]

EmptyDoc == Doc(<<>>, <<>>)

\* documents with no track and one waypoint
WaypointDocs ==
  {Doc(<<>>, <<Waypoint(lat, lon, name)>>) :
     lat \in 0..MaxCoord, lon \in 0..MaxCoord, name \in {<<>>, <<"Summit">>}}

\* a climb of three points (one arrow, 3 km after its start), a flat track
\* whose two points coincide, and a track of a single point
Climb == <<Point(0, 0, <<2>>), Point(3, 0, <<6>>), Point(4, 0, <<>>)>>
Flat == <<Point(5, 0, <<2>>), Point(5, 0, <<2>>)>>
Single == <<Point(2, 0, <<6>>)>>

TrackDocs ==
  {Doc(<<Climb>>, <<>>),
   Doc(<<Climb, Flat>>, <<Waypoint(1, 1, <<"Hut">>)>>),
   Doc(<<Single>>, <<Waypoint(0, 1, <<>>)>>),
   Doc(<< <<>> >>, <<>>)}

Docs == {EmptyDoc} \cup WaypointDocs \cup TrackDocs
Files == Docs \cup {Malformed, Unreadable}

Loads == 1..MaxLoads

\* ------------------------------------------------------------------- state
VARIABLES
  map,           \* the map state of the component: "null" or "googleMap"
  initPc,        \* initializeMap: "await" (at loader.load()) or "done"
  pc,            \* per file-load event: "idle" (not fired), "returned" (early
                 \* return), "await" (at file.text()), "done", "failed" (caught)
  file,          \* per file-load event: what e.target.files[0] holds
  polylinesRef,  \* polylinesRef.current
  markersRef,    \* markersRef.current
  onMap,         \* the overlays whose map is not null
  created,       \* per file-load event: the overlays it constructed, in order
  fitted,        \* per file-load event: the regions it passed to map.fitBounds
  console,       \* the console.error calls, in order
  arrowTrackNo,  \* renderDirectionArrows stepped: tracks.forEach position
  arrowPoints,   \*   points of the current track
  arrowI,        \*   loop variable i (counted from 1)
  arrowState,    \*   accumulatedDistance, lastArrowDistance, markers pushed
  arrowPushed,   \*   markers pushed by the tracks already finished
  colorCall      \* one call of getColorForElevation: arguments and result

viewVars == <<map, initPc, pc, file, polylinesRef, markersRef, onMap, created,
              fitted, console>>
arrowVars == <<arrowTrackNo, arrowPoints, arrowI, arrowState, arrowPushed>>
vars == <<viewVars, arrowVars, colorCall>>

\* the component after construction: refs empty, map null, initializeMap
\* started by the effect and suspended at loader.load()
ViewInit ==
  /\ map = "null"
  /\ initPc = "await"
  /\ pc = [l \in Loads |-> "idle"]
  /\ file = [l \in Loads |-> NoFile]
  /\ polylinesRef = <<>>
  /\ markersRef = <<>>
  /\ onMap = {}
  /\ created = [l \in Loads |-> <<>>]
  /\ fitted = [l \in Loads |-> <<>>]
  /\ console = <<>>

ArrowInit ==
  /\ arrowTrackNo = 0
  /\ arrowPoints = <<>>
  /\ arrowI = 1
  /\ arrowState = ArrowTrackStart
  /\ arrowPushed = 0

ColorIdle == [elevation |-> 0, minElevation |-> 0, maxElevation |-> 0, result |-> <<>>]

Init == ViewInit /\ ArrowInit /\ colorCall = ColorIdle

\* ------------------------------------------------------------ initializeMap
\* loader.load() resolves: the map is constructed and setMap(googleMap) runs
initializeMapResolve ==
  /\ initPc = "await"
  /\ initPc' = "done"
  /\ map' = "googleMap"
  /\ UNCHANGED <<pc, file, polylinesRef, markersRef, onMap, created, fitted,
                 console, arrowVars, colorCall>>

\* loader.load() rejects: caught and logged, the map stays null
initializeMapReject ==
  /\ initPc = "await"
  /\ initPc' = "done"
  /\ console' = Append(console, [source |-> "initializeMap", load |-> 0])
  /\ UNCHANGED <<map, pc, file, polylinesRef, markersRef, onMap, created,
                 fitted, arrowVars, colorCall>>

\* --------------------------------------------------------------- handleFile
\* the next file-load event is event l
Fires(l) == pc[l] = "idle" /\ \A m \in Loads : m < l => pc[m] # "idle"

\* "if (!map) return;"
handleFileNoMap(l) ==
  /\ Fires(l)
  /\ map = "null"
  /\ pc' = [pc EXCEPT ![l] = "returned"]
  /\ UNCHANGED <<map, initPc, file, polylinesRef, markersRef, onMap, created,
                 fitted, console, arrowVars, colorCall>>

\* clearMapOverlays(); "if (!file) return;"
handleFileNoFile(l) ==
  /\ Fires(l)
  /\ map # "null"
  /\ LET c == clearMapOverlays(polylinesRef, markersRef, onMap)
     IN  /\ polylinesRef' = c.polylinesRef
         /\ markersRef' = c.markersRef
         /\ onMap' = c.onMap
  /\ pc' = [pc EXCEPT ![l] = "returned"]
  /\ UNCHANGED <<map, initPc, file, created, fitted, console, arrowVars, colorCall>>

\* clearMapOverlays(); then the handler suspends at "await file.text()"
handleFileRead(l, f) ==
  /\ Fires(l)
  /\ map # "null"
  /\ LET c == clearMapOverlays(polylinesRef, markersRef, onMap)
     IN  /\ polylinesRef' = c.polylinesRef
         /\ markersRef' = c.markersRef
         /\ onMap' = c.onMap
  /\ pc' = [pc EXCEPT ![l] = "await"]
  /\ file' = [file EXCEPT ![l] = f]
  /\ UNCHANGED <<map, initPc, created, fitted, console, arrowVars, colorCall>>

\* file.text() resolves and parser.parse(text) returns: the rest of the try
\* block runs to its end without suspending
handleFileRender(l) ==
  /\ pc[l] = "await"
  /\ file[l].kind = "doc"
  /\ LET tracks == file[l].tracks
         waypoints == file[l].waypoints
         range == calculateElevationRange(tracks)
         polylines == Tagged(l, renderTrackSegments(tracks, range.min, range.max), 0)
         arrows == Tagged(l, renderDirectionArrows(tracks), Len(polylines))
         pins == Tagged(l, renderWaypoints(waypoints), Len(polylines) + Len(arrows))
     IN  /\ polylinesRef' = polylinesRef \o polylines
         /\ markersRef' = markersRef \o arrows \o pins
         /\ onMap' = onMap \cup Range(polylines) \cup Range(arrows) \cup Range(pins)
         /\ created' = [created EXCEPT ![l] = polylines \o arrows \o pins]
         /\ fitted' = [fitted EXCEPT ![l] = fitMapBounds(range.allPoints, waypoints)]
  /\ pc' = [pc EXCEPT ![l] = "done"]
  /\ UNCHANGED <<map, initPc, file, console, arrowVars, colorCall>>

\* file.text() rejects or parser.parse(text) throws: the catch block logs it
handleFileCatch(l) ==
  /\ pc[l] = "await"
  /\ file[l].kind \in {"malformed", "unreadable"}
  /\ console' = Append(console, [source |-> "handleFile", load |-> l])
  /\ pc' = [pc EXCEPT ![l] = "failed"]
  /\ UNCHANGED <<map, initPc, file, polylinesRef, markersRef, onMap, created,
                 fitted, arrowVars, colorCall>>

Next ==
  \/ initializeMapResolve
  \/ initializeMapReject
  \/ \E l \in Loads : handleFileNoMap(l)
  \/ \E l \in Loads : handleFileNoFile(l)
  \/ \E l \in Loads, f \in Files : handleFileRead(l, f)
  \/ \E l \in Loads : handleFileRender(l)
  \/ \E l \in Loads : handleFileCatch(l)

Spec == Init /\ [][Next]_vars

\* ---------------------------------------- renderDirectionArrows, stepped
\* A specification of renderDirectionArrows alone.  Every entry of the forEach
\* callback and every iteration of its for loop is one step.  The argument is
\* read as it is walked: arrowPoints holds the points of the current track up
\* to points[i + 1], and the loop condition i < points.length - 1 holds exactly
\* when the track has a further point, so every state is also the state at
\* the end of the loop for the track that ends here.
ArrowPointSet == {Point(lat, 0, <<>>) : lat \in 0..MaxLat}

\* tracks.forEach enters its callback for the next track, which is empty or
\* begins with the point start[1]
arrowsNextTrack(start) ==
  /\ arrowTrackNo < MaxArrowTracks
  /\ arrowTrackNo' = arrowTrackNo + 1
  /\ arrowPoints' = start
  /\ arrowI' = 1
  /\ arrowState' = ArrowTrackStart
  /\ arrowPushed' = arrowPushed + Len(arrowState.markers)
  /\ UNCHANGED <<viewVars, colorCall>>

\* one iteration of the for loop, the track going on with nextPoint
arrowsIteration(nextPoint) ==
  /\ arrowTrackNo >= 1
  /\ Len(arrowPoints) >= 1
  /\ Len(arrowPoints) < MaxArrowPoints
  /\ arrowPoints' = Append(arrowPoints, nextPoint)
  /\ arrowState' = ArrowIteration(arrowState, arrowPoints[arrowI], nextPoint)
  /\ arrowI' = arrowI + 1
  /\ UNCHANGED <<arrowTrackNo, arrowPushed, viewVars, colorCall>>

NextArrows ==
  \/ \E start \in {<<>>} \cup {<<p>> : p \in ArrowPointSet} : arrowsNextTrack(start)
  \/ \E nextPoint \in ArrowPointSet : arrowsIteration(nextPoint)

SpecArrows == Init /\ [][NextArrows]_vars

\* ------------------------------------------- getColorForElevation, alone
\* A specification of one call: the arguments are drawn at the start (every
\* range with min <= max), the step computes the result.
ColorInit ==
  /\ ViewInit
  /\ ArrowInit
  /\ colorCall \in [elevation : (0 - 1)..(MaxElev + 1),
                    minElevation : 0..MaxElev,
                    maxElevation : 0..MaxElev,
                    result : {<<>>}]
  /\ colorCall.minElevation <= colorCall.maxElevation

colorApply ==
  /\ colorCall.result = <<>>
  /\ colorCall' = [colorCall EXCEPT !.result =
        getColorForElevation(colorCall.elevation, colorCall.minElevation,
                             colorCall.maxElevation)]
  /\ UNCHANGED <<viewVars, arrowVars>>

NextColor == colorApply

SpecColor == ColorInit /\ [][NextColor]_vars

\* ================================================================= claims
Tracked == Range(polylinesRef) \cup Range(markersRef)

\* No file-load event after event l has fired.
MostRecent(l) == \A m \in Loads : m > l => pc[m] = "idle"

\* both overlay-tracking collections are empty and nothing is attached
Cleared == polylinesRef = <<>> /\ markersRef = <<>> /\ onMap = {}

\* C1: once a later file load has rendered, no overlay emitted by an earlier
\* load is tracked or shown on the map.
C1_ExclusiveOwnership ==
  \A l \in Loads, m \in Loads :
    (l < m /\ pc[m] = "done") =>
      \A o \in Tracked \cup onMap : o.load # l

\* C2: when the most recent file load has failed, the failure is logged, the
\* handler has returned, and no overlay is tracked or attached.
C2_FailedLoadLeavesNothing ==
  \A l \in Loads :
    (pc[l] = "failed" /\ MostRecent(l)) =>
      /\ \E k \in 1..Len(console) : console[k] = [source |-> "handleFile", load |-> l]
      /\ Cleared

\* C5: a load of a document with no track point and no waypoint does not ask
\* the map to fit its viewport.
C5_EmptyFitSkipped ==
  \A l \in Loads :
    (pc[l] = "done" /\ Flatten(file[l].tracks) = <<>> /\ file[l].waypoints = <<>>)
      => fitted[l] = <<>>

\* A document with no track and exactly one waypoint
OneWaypointOnly(f) == f.kind = "doc" /\ f.tracks = <<>> /\ Len(f.waypoints) = 1

\* C8: a load of a document with no track and one waypoint ends without an
\* error, having constructed exactly one marker, at the waypoint, and asked for
\* one viewport fit, to the region that is exactly the waypoint's coordinate.
C8_SingleWaypoint ==
  \A l \in Loads :
    (OneWaypointOnly(file[l]) /\ pc[l] # "await") =>
      LET w == file[l].waypoints[1] IN
      /\ pc[l] = "done"
      /\ \A k \in 1..Len(console) : console[k].load # l
      /\ Len(created[l]) = 1
      /\ created[l][1].obj.kind = "waypoint"
      /\ created[l][1].obj.position = [lat |-> w.lat, lng |-> w.lon]
      /\ fitted[l] = <<[empty |-> FALSE, south |-> w.lat, north |-> w.lat,
                        west |-> w.lon, east |-> w.lon]>>

C8_Witness ==
  \E l \in Loads :
    /\ OneWaypointOnly(file[l])
    /\ pc[l] = "done"
    /\ file[l].waypoints[1].lat # file[l].waypoints[1].lon

\* the step clears the overlays (handleFile past its "if (!map) return")
ClearStep ==
  \E l \in Loads : pc[l] = "idle" /\ pc'[l] \in {"await", "returned"} /\ map # "null"

\* the step renders an empty document
EmptyRenderStep ==
  \E l \in Loads : pc[l] = "await" /\ pc'[l] = "done" /\ file[l] = EmptyDoc

\* C9: whatever has been rendered, clearing the overlays leaves both tracking
\* collections empty and nothing attached to the map, and rendering an empty
\* document right after the clear leaves it so.
C9_RoundTrip ==
  [][ /\ ClearStep => Cleared'
      /\ (EmptyRenderStep /\ polylinesRef = <<>> /\ markersRef = <<>>) => Cleared'
    ]_vars

C9_Witness ==
  \E l \in Loads, m \in Loads :
    /\ m < l
    /\ pc[m] = "done"
    /\ created[m] # <<>>
    /\ pc[l] = "done"
    /\ file[l] = EmptyDoc
    /\ Cleared

\* the document-wide elevation range, a missing elevation counted as 0
DocElevations(tracks) ==
  UNION {{OrZero(tracks[t][i].ele) : i \in 1..Len(tracks[t])} : t \in 1..Len(tracks)}
DocMin(tracks) == CHOOSE e \in DocElevations(tracks) : \A f \in DocElevations(tracks) : e <= f
DocMax(tracks) == CHOOSE e \in DocElevations(tracks) : \A f \in DocElevations(tracks) : e >= f

\* segment i of track t: p[i] to p[i+1], coloured from the average elevation
ExpectedSegment(tracks, t, i) ==
  LET p == tracks[t] IN
  [kind |-> "polyline",
   path |-> <<[lat |-> p[i].lat, lng |-> p[i].lon],
              [lat |-> p[i + 1].lat, lng |-> p[i + 1].lon]>>,
   strokeColor |-> getColorForElevation(
       (OrZero(p[i].ele) + OrZero(p[i + 1].ele)) \div 2,
       DocMin(tracks), DocMax(tracks))]

\* the number of segments of the tracks before track t
SegmentsBefore(tracks, t) ==
  Len(Flatten([u \in 1..(t - 1) |-> [i \in 1..(Len(tracks[u]) - 1) |-> u]]))

\* the polylines a load has constructed are one per pair of consecutive
\* points, in track-then-position order, before any marker
SegmentsEmitted(l) ==
  LET tracks == file[l].tracks
      total == SegmentsBefore(tracks, Len(tracks) + 1)
  IN  /\ \A k \in 1..Len(created[l]) :
            (created[l][k].obj.kind = "polyline") <=> (k <= total)
      /\ \A t \in 1..Len(tracks) : \A i \in 1..(Len(tracks[t]) - 1) :
            created[l][SegmentsBefore(tracks, t) + i].obj = ExpectedSegment(tracks, t, i)

\* C10: a completed load has emitted one coloured segment per pair of
\* consecutive points, in track-then-position order and before any marker, and
\* the tracked polyline collection holds exactly these segments.
C10_SegmentsTracked ==
  \A l \in Loads :
    (pc[l] = "done" /\ MostRecent(l)) =>
      /\ SegmentsEmitted(l)
      /\ Len(polylinesRef) = SegmentsBefore(file[l].tracks, Len(file[l].tracks) + 1)
      /\ \A k \in 1..Len(polylinesRef) : polylinesRef[k] = created[l][k]

\* What holds of C10 whatever the interleaving of loads: the emission itself.
C10_EmissionOnly ==
  \A l \in Loads : pc[l] = "done" => SegmentsEmitted(l)

\* ---------------------------------------------------- direction markers
RECURSIVE PathLength(_, _)
\* the sum of the distances of the first k consecutive pairs of points
PathLength(points, k) ==
  IF k = 0 THEN 0
  ELSE PathLength(points, k - 1) + calculateDistance(points[k], points[k + 1])

\* the segments of the current track processed so far, its length L over
\* them, and the markers emitted for it
ArrowProcessed == Len(arrowPoints) - 1
ArrowLength == IF arrowPoints = <<>> THEN 0 ELSE PathLength(arrowPoints, ArrowProcessed)
ArrowCount == Len(arrowState.markers)

\* C3 as stated: the number of markers of a track of length L is within 1 of
\* floor(L / T).
C3_CountWithinOne ==
  arrowTrackNo >= 1 =>
    /\ ArrowCount <= (ArrowLength \div ArrowThreshold) + 1
    /\ ArrowCount >= (ArrowLength \div ArrowThreshold) - 1

\* C3 as amended: a track shorter than T has no marker; a track of length
\* L >= T has at least one marker and at most floor(L / T).
C3_CountAtMostFloor ==
  arrowTrackNo >= 1 =>
    IF ArrowLength < ArrowThreshold
    THEN ArrowCount = 0
    ELSE ArrowCount >= 1 /\ ArrowCount <= ArrowLength \div ArrowThreshold

\* a track of one segment of at least two thresholds, with its one marker
C3_Witness ==
  /\ arrowTrackNo >= 1
  /\ ArrowProcessed = 1
  /\ ArrowLength >= 2 * ArrowThreshold
  /\ ArrowCount = 1

\* C4: the markers of a track are at most one per processed segment, each at
\* the start point of a segment and carrying the distance accumulated over
\* this track alone up to that segment's end; the first is at >= T, consecutive
\* ones are >= T apart; the accumulated distance and the baseline are those of
\* this track alone (0 when no segment of it is processed yet).
C4_MarkerSpacing ==
  LET ms == arrowState.markers IN
  /\ arrowState.accumulatedDistance = ArrowLength
  /\ arrowState.lastArrowDistance = IF ms = <<>> THEN 0 ELSE ms[Len(ms)].title
  /\ (arrowTrackNo >= 1 /\ ArrowProcessed <= 0) =>
       (arrowState.accumulatedDistance = 0 /\ arrowState.lastArrowDistance = 0
          /\ ms = <<>>)
  /\ Len(ms) <= (IF ArrowProcessed < 0 THEN 0 ELSE ArrowProcessed)
  /\ \A k \in 1..Len(ms) :
       /\ \E j \in 1..ArrowProcessed :
            /\ ms[k].title = PathLength(arrowPoints, j)
            /\ ms[k].position = [lat |-> arrowPoints[j].lat, lng |-> arrowPoints[j].lon]
       /\ ms[k].title - (IF k = 1 THEN 0 ELSE ms[k - 1].title) >= ArrowThreshold

\* a second track with two markers, after a first track that had markers
C4_Witness ==
  /\ arrowTrackNo = 2
  /\ arrowPushed >= 1
  /\ Len(arrowState.markers) >= 2
  /\ arrowState.markers[2].title - arrowState.markers[1].title > ArrowThreshold

\* ------------------------------------------------------------- colours
ColorCalled == colorCall.result # <<>>

Between(x, a, b) == (a <= x /\ x <= b) \/ (b <= x /\ x <= a)

\* every channel lies between its low and its high value
ChannelsInRange ==
  \A c \in 1..3 : Between(colorCall.result[c], lowColor[c], highColor[c])

\* C7 as stated: every e <= min gives the low colour, every e >= max the high
\* colour, and every channel lies between its low and its high value.
C7_Clamping ==
  ColorCalled =>
    /\ colorCall.elevation <= colorCall.minElevation => colorCall.result = lowColor
    /\ colorCall.elevation >= colorCall.maxElevation => colorCall.result = highColor
    /\ ChannelsInRange

\* C7 as amended: the high colour for e >= max is claimed of the ranges with
\* min < max only.
C7_ClampingProperRange ==
  ColorCalled =>
    /\ colorCall.elevation <= colorCall.minElevation => colorCall.result = lowColor
    /\ (colorCall.minElevation < colorCall.maxElevation
          /\ colorCall.elevation >= colorCall.maxElevation)
         => colorCall.result = highColor
    /\ ChannelsInRange

\* an elevation above a proper range, clamped to the high colour
C7_Witness ==
  /\ ColorCalled
  /\ colorCall.minElevation < colorCall.maxElevation
  /\ colorCall.elevation > colorCall.maxElevation
  /\ colorCall.result = highColor

====
